---- MODULE Spec2Model ----
(***************************************************************************)
(* A model of the windowing controller of dashboardv2/src/WindowedList.tsx *)
(* (the WindowedList component, its callbacks and the scroll listener it   *)
(* attaches) together with the Position Index object it drives             *)
(* (WindowedListState, whose required contract is given in spec.md 4.6).   *)
(***************************************************************************)
EXTENDS Integers, Sequences, FiniteSets, TLC

(***************************************************************************)
(* Bounds of the model.                                                    *)
(***************************************************************************)
\* largest sequence length N of a Position Index
MaxN == 2
\* number of DOM elements on the ancestor chain (element 1 is the outermost)
NumElements == 2
\* largest raw scroll offset read from the DOM
MaxScroll == 2
\* largest thresholdTop the caller configures
MaxThreshold == 1
\* number of Position Index objects the caller constructs over the lifetime
MaxStates == 2

(***************************************************************************)
(* JavaScript values.                                                      *)
(***************************************************************************)
\* null (a reference to nothing)
NULL == <<>>
\* a finite number n, and the not-a-number value
Num(n) == [nan |-> FALSE, n |-> n]
NaN == [nan |-> TRUE, n |-> 0]
IsNaN(x) == x.nan
\* IEEE addition on these numbers: not-a-number absorbs
Add(a, b) == IF a.nan \/ b.nan THEN NaN ELSE Num(a.n + b.n)
\* IEEE comparisons: every comparison with not-a-number is false
Leq(a, b) == ~a.nan /\ ~b.nan /\ a.n <= b.n
Geq(a, b) == ~a.nan /\ ~b.nan /\ a.n >= b.n
Max(a, b) == IF a >= b THEN a ELSE b

\* the global window object and the DOM elements
WINDOW == [tag |-> "window", id |-> 0]
Element(e) == [tag |-> "element", id |-> e]
Elements == {Element(e) : e \in 1..NumElements}
Targets == {WINDOW} \cup Elements
\* node.parentElement of a DOM element: the chain ends at the outermost one
parentElement(el) == IF el.id = 1 THEN NULL ELSE Element(el.id - 1)

\* values of the computed overflow-y style
Overflow == {"visible", "auto", "scroll"}
\* values of the computed margin-top / margin-bottom style, as characters
Margins == { <<"1", "p", "x">>, <<"a", "u", "t", "o">> }
\* the first client rectangle of a laid-out node
Rects == { [top |-> 5, height |-> 1] }
\* the nodes an item adapter can hand to onItemRender: a node that is not
\* laid out has no client rectangle and empty computed margins
Nodes == [rect : Rects, marginTop : Margins, marginBottom : Margins]
            \cup {[rect |-> NULL, marginTop |-> <<>>, marginBottom |-> <<>>]}

\* the indices the queries are called with: any integer, in and out of range
Indices == -1..MaxN
\* the indices items are mounted at: MaxN is out of range of every sequence
MountIndices == 0..MaxN
Offsets == 0..MaxScroll
Thresholds == 0..MaxThreshold

(***************************************************************************)
(* parseFloat: optional white space, an optional sign, then the longest    *)
(* run of decimal digits; not-a-number when there is no digit.  (Pixel     *)
(* values are whole numbers in this model, so a fraction is not parsed.)   *)
(***************************************************************************)
IsDigit(c) == c \in {"0", "1", "2", "3", "4", "5", "6", "7", "8", "9"}
DigitVal(c) ==
    CASE c = "0" -> 0 [] c = "1" -> 1 [] c = "2" -> 2 [] c = "3" -> 3
      [] c = "4" -> 4 [] c = "5" -> 5 [] c = "6" -> 6 [] c = "7" -> 7
      [] c = "8" -> 8 [] c = "9" -> 9

RECURSIVE SkipSpace(_, _)
SkipSpace(str, pos) ==
    IF pos <= Len(str) /\ str[pos] = " " THEN SkipSpace(str, pos + 1) ELSE pos

RECURSIVE ParseDigits(_, _, _)
ParseDigits(str, pos, acc) ==
    IF pos <= Len(str) /\ IsDigit(str[pos])
    THEN ParseDigits(str, pos + 1, acc * 10 + DigitVal(str[pos]))
    ELSE acc

parseFloat(str) ==
    LET start == SkipSpace(str, 1)
        signed == start <= Len(str) /\ str[start] \in {"-", "+"}
        first == IF signed THEN start + 1 ELSE start
        value == ParseDigits(str, first, 0)
    IN  IF first <= Len(str) /\ IsDigit(str[first])
        THEN Num(IF signed /\ str[start] = "-" THEN 0 - value ELSE value)
        ELSE NaN

\* the nodes whose measurement gives no not-a-number: those that are not laid
\* out and those whose margins parse
PlainNodes == {node \in Nodes : node.rect = NULL
                                  \/ (~IsNaN(parseFloat(node.marginTop))
                                        /\ ~IsNaN(parseFloat(node.marginBottom)))}

(***************************************************************************)
(* findScrollParent: walk up from node while it is not null; return the    *)
(* first node whose computed overflow-y is auto or scroll, else window.    *)
(* overflowY is what window.getComputedStyle reads for each element.       *)
(***************************************************************************)
\* a lookup that misses the 'scroll' case
RECURSIVE findScrollParent_AutoOnly(_, _)
findScrollParent_AutoOnly(node, overflowY) ==
    IF node = NULL THEN WINDOW
    ELSE IF overflowY[node] = "auto" THEN node
    ELSE findScrollParent_AutoOnly(parentElement(node), overflowY)

RECURSIVE findScrollParent(_, _)
findScrollParent(node, overflowY) ==
    IF node = NULL THEN WINDOW
    ELSE IF overflowY[node] = "auto" THEN node
    ELSE IF overflowY[node] = "scroll" THEN node
    ELSE findScrollParent(parentElement(node), overflowY)

(***************************************************************************)
(* calcItemDimensions: null when the node has no client rectangle, else    *)
(* its top and its height plus the two parsed margins.                     *)
(***************************************************************************)
\* a measurement without the check for a missing client rectangle
calcItemDimensions_NoRectCheck(node) ==
    LET margin == Add(parseFloat(node.marginTop), parseFloat(node.marginBottom))
    IN  IF node.rect = NULL
        THEN [top |-> 0, height |-> Add(Num(0), margin)]
        ELSE [top |-> node.rect.top, height |-> Add(Num(node.rect.height), margin)]

calcItemDimensions(node) ==
    IF node.rect = NULL THEN NULL
    ELSE LET margin == Add(parseFloat(node.marginTop), parseFloat(node.marginBottom))
         IN  [top |-> node.rect.top, height |-> Add(Num(node.rect.height), margin)]

(***************************************************************************)
(* The Position Index (WindowedListState).  Its source is not part of the  *)
(* files modelled here; it is modelled from its contract in spec.md 4.6    *)
(* and 3: a height per measured index, a fallback height for the others,   *)
(* cumulative offsets, and the window recomputed by both updates.          *)
(***************************************************************************)
\* fallback height of an unmeasured index, and the viewport extent
DefaultHeight == 2
ViewportHeight == 3

HeightAt(heights, i) == IF i \in DOMAIN heights THEN heights[i] ELSE Num(DefaultHeight)

\* sum of the heights of the indices from..to-1
RECURSIVE SumHeights(_, _, _)
SumHeights(heights, from, to) ==
    IF from >= to THEN Num(0)
    ELSE Add(HeightAt(heights, from), SumHeights(heights, from + 1, to))

\* offset(i) = sum of heights(0..i-1)
OffsetOf(heights, i) == SumHeights(heights, 0, i)

\* the index of the item whose extent contains the offset: the last index
\* whose cumulative offset is at most the offset (0 for an empty sequence)
CalcVisibleIndexTop(length, heights, offset) ==
    LET at == {i \in 0..(length - 1) : Leq(OffsetOf(heights, i), Num(offset))}
    IN  IF at = {} THEN 0 ELSE CHOOSE i \in at : \A j \in at : j <= i

\* the count of items from top whose heights fill one viewport extent,
\* never reaching beyond the end of the sequence
CalcVisibleLength(length, heights, top) ==
    LET fill == {k \in 0..(length - top) :
                    Geq(SumHeights(heights, top, top + k), Num(ViewportHeight))}
    IN  IF fill = {} THEN length - top ELSE CHOOSE k \in fill : \A j \in fill : k <= j

Recompute(length, heights, offset) ==
    LET top == CalcVisibleIndexTop(length, heights, offset)
    IN  [length |-> length,
         heights |-> heights,
         scrollPosition |-> offset,
         visibleIndexTop |-> top,
         visibleLength |-> CalcVisibleLength(length, heights, top)]

\* new WindowedListState over a sequence of n items
NewState(n) == Recompute(n, <<>>, 0)

\* updateHeightAtIndex(index, height); an index outside [0, N) is out of range
updateHeightAtIndex(pi, index, height) ==
    IF index \in 0..(pi.length - 1)
    THEN Recompute(pi.length,
                   [i \in (DOMAIN pi.heights) \cup {index} |->
                       IF i = index THEN height ELSE pi.heights[i]],
                   pi.scrollPosition)
    ELSE pi

\* updateScrollPosition(offsetPixels)
updateScrollPosition(pi, offset) == Recompute(pi.length, pi.heights, offset)

(***************************************************************************)
(* The state of one WindowedList controller and of its surroundings.       *)
(***************************************************************************)
VARIABLES
    state,            \* the `state` prop: which Position Index is supplied
    thresholdTop,     \* the `thresholdTop` prop
    states,           \* the Position Index objects constructed so far
    itemDimensions,   \* the Map index -> dimensions or null (keys: DOMAIN)
    scrollParentRef,  \* scrollParentRef.current
    willUnmountFns,   \* the teardown callbacks, in registration order
    listeners,        \* the scroll listeners attached to the DOM targets
    mounted,          \* FALSE once the controller has unmounted
    tornDown,         \* the teardown callbacks run by the unmount
    call,             \* the last operation: its arguments, reads and effects
    editor,           \* EnvEditor: the state React.useReducer holds
    dispatched        \* EnvEditor: the last dispatch and what it did

vars == <<state, thresholdTop, states, itemDimensions, scrollParentRef,
          willUnmountFns, listeners, mounted, tornDown, call, editor, dispatched>>

\* the record of an operation; every field is set by the operation that ran
NoCall ==
    [op |-> "none", index |-> 0, node |-> NULL, parent |-> NULL, overflowY |-> NULL,
     target |-> NULL, offset |-> 0, result |-> NULL, log |-> <<>>]

\* the handleScroll closure of the current render: useCallback gives a new
\* function exactly when state or thresholdTop differ
handleScrollOf(st, threshold) == [state |-> st, thresholdTop |-> threshold]

\* getScrollTop: 0 without an anchor, window.scrollY for the viewport, else
\* the anchor element's scrollTop
getScrollTop(scrollY, scrollTop) ==
    IF scrollParentRef = NULL THEN 0
    ELSE IF scrollParentRef = WINDOW THEN scrollY
    ELSE scrollTop[scrollParentRef]

\* a handler that forwards the offset without the clamp at 0
handleScrollOffset_NoClamp(handler, scrollY, scrollTop) ==
    getScrollTop(scrollY, scrollTop) - handler.thresholdTop

\* the offset handleScroll feeds to state.updateScrollPosition
handleScrollOffset(handler, scrollY, scrollTop) ==
    Max(0, getScrollTop(scrollY, scrollTop) - handler.thresholdTop)

\* target.addEventListener('scroll', handler, false)
addEventListener(ls, target, handler) ==
    ls \cup {[target |-> target, handler |-> handler]}

\* target.removeEventListener('scroll', handler, false)
removeEventListener(ls, target, handler) ==
    ls \ {[target |-> target, handler |-> handler]}

\* the teardown callback registered with the listener: it removes the
\* handler it was registered with from the anchor it was found for
willUnmountFn(scrollParentNode, handler) ==
    [target |-> scrollParentNode, handler |-> handler]

\* a teardown that removes the handleScroll of the render that unmounts
\* instead of the one each callback was registered with
RECURSIVE runWillUnmountFns_CurrentHandler(_, _)
runWillUnmountFns_CurrentHandler(fns, ls) ==
    IF fns = <<>> THEN ls
    ELSE runWillUnmountFns_CurrentHandler(
            Tail(fns),
            removeEventListener(ls, Head(fns).target, handleScrollOf(state, thresholdTop)))

\* willUnmountFns.forEach((fn) => fn())
RECURSIVE runWillUnmountFns(_, _)
runWillUnmountFns(fns, ls) ==
    IF fns = <<>> THEN ls
    ELSE runWillUnmountFns(Tail(fns),
                           removeEventListener(ls, Head(fns).target, Head(fns).handler))

\* a window test that takes the end of the window in
shouldItemRender_InclusiveEnd(index) ==
    /\ states[state].visibleIndexTop <= index
    /\ states[state].visibleIndexTop + states[state].visibleLength >= index

\* a window test without the lower bound
shouldItemRender_NoLowerBound(index) ==
    states[state].visibleIndexTop + states[state].visibleLength > index

\* shouldItemRender(index), read from the Position Index of the current render
shouldItemRender(index) ==
    /\ states[state].visibleIndexTop <= index
    /\ states[state].visibleIndexTop + states[state].visibleLength > index

\* getItemDimensions(index): itemDimensions.get(index) || null
getItemDimensions(index) ==
    IF index \in DOMAIN itemDimensions /\ itemDimensions[index] # NULL
    THEN itemDimensions[index]
    ELSE NULL

\* a store that starts a new table on every measurement
MapSet_Fresh(map, key, value) == [k \in {key} |-> value]

\* itemDimensions.set(index, dimensions)
MapSet(map, key, value) ==
    [k \in (DOMAIN map) \cup {key} |-> IF k = key THEN value ELSE map[k]]

(***************************************************************************)
(* EnvEditor (src/unnamed/part_000): the reducer behind React.useReducer.  *)
(* An object is modelled by its content; what the reducer compares with    *)
(* === (the state, its data, its release) is tracked for one call as "is   *)
(* this the object prevState holds".                                       *)
(***************************************************************************)
MaxBatch == 2

Keys == {"KEY"}
Values == {"a"}
\* the content of a jspb.Map of strings: a function on the keys it holds
Envs == UNION {[S -> Values] : S \in SUBSET Keys}

\* new Release(): no artifacts and an empty env map (labels and processes
\* are copied as the artifacts are and are not modelled apart)
NewRelease == [artifacts |-> <<>>, env |-> <<>>]

\* the releases the app-release stream delivers
AppReleases == {[artifacts |-> <<"app">>, env |-> env] : env \in Envs}

NotFound == [message |-> "not found"]
Errors == {NULL, NotFound}

\* useAppRelease: the state before the first release or error arrives
initialAppReleaseState == [release |-> NULL, loading |-> TRUE, error |-> NULL]

\* KeyValueEditor: the entries shown and the keys the user edited
buildData(entries) == [entries |-> entries, changed |-> {}]

Datas == [entries : Envs, changed : SUBSET Keys]

getEntries(data) == data.entries

\* an edit of one entry: the key is set to a value or removed
dataReducer(data, action) ==
    [entries |-> [k \in (IF action.remove
                         THEN (DOMAIN data.entries) \ {action.key}
                         ELSE (DOMAIN data.entries) \cup {action.key}) |->
                     IF k = action.key THEN action.value ELSE data.entries[k]],
     changed |-> data.changed \cup {action.key}]

\* the entries of base, with the entries the user edited kept as edited
rebaseData(data, base) ==
    [entries |-> [k \in {key \in Keys : IF key \in data.changed
                                        THEN key \in DOMAIN data.entries
                                        ELSE key \in DOMAIN base} |->
                     IF k \in data.changed THEN data.entries[k] ELSE base[k]],
     changed |-> data.changed]

\* protoMapDiff(a, b): the entries to set and the keys to remove to get b
protoMapDiff(a, b) ==
    [set |-> [k \in {key \in DOMAIN b : key \notin DOMAIN a \/ a[key] # b[key]} |-> b[k]],
     remove |-> (DOMAIN a) \ (DOMAIN b)]

\* the diff `[]`
EmptyDiff == [set |-> <<>>, remove |-> {}]

applyProtoMapDiff(a, diff) ==
    [k \in ((DOMAIN a) \ diff.remove) \cup (DOMAIN diff.set) |->
        IF k \in DOMAIN diff.set THEN diff.set[k] ELSE a[k]]

\* an initial state that is deploying
initialState_Deploying ==
    [data |-> buildData(<<>>), isDeploying |-> TRUE,
     currentReleaseState |-> initialAppReleaseState, newRelease |-> NewRelease]

\* initialState(props)
initialState ==
    [data |-> buildData(<<>>), isDeploying |-> FALSE,
     currentReleaseState |-> initialAppReleaseState, newRelease |-> NewRelease]

DataActionType == {"DATA_ACTION"}
AppReleaseActionType == {"APP_RELEASE_ACTION"}

isActionType(types, action) == action.type \in types

\* an action: data of INIT_DATA, SET_DATA and SUBMIT_DATA (held: it is the
\* object prevState.data), key, value, remove of a data action, and of an
\* app-release action the state the sub-reducer returns for it (heldRelease:
\* its release is the object prevState holds)
BlankAction(type) ==
    [type |-> type, data |-> buildData(<<>>), held |-> FALSE,
     key |-> "", value |-> "", remove |-> FALSE,
     next |-> initialAppReleaseState, heldRelease |-> FALSE]

\* appReleaseReducer(prevState, action): any state, none excluded
appReleaseReducer(prevReleaseState, action) == action.next

\* a callback that returns the copy for an action of no known type
reduceAction_UnknownCopies(acc, action) ==
    LET nextState == [acc EXCEPT !.isPrevState = FALSE]
    IN  CASE action.type \in {"INIT_DATA", "SET_DATA"} ->
                [nextState EXCEPT !.state.data = action.data,
                                  !.dataIsPrev = action.held]
          [] action.type = "SUBMIT_DATA" ->
                [nextState EXCEPT !.state.data = action.data,
                                  !.dataIsPrev = action.held,
                                  !.state.isDeploying = TRUE]
          [] action.type \in {"CANCEL", "DEPLOY_DISMISS"} ->
                [nextState EXCEPT !.state.isDeploying = FALSE]
          [] action.type = "CREATED" ->
                [nextState EXCEPT !.state.isDeploying = FALSE]
          [] OTHER ->
                IF isActionType(DataActionType, action)
                THEN [nextState EXCEPT
                         !.state.data = dataReducer(acc.state.data, action),
                         !.dataIsPrev = FALSE]
                ELSE IF isActionType(AppReleaseActionType, action)
                THEN [nextState EXCEPT
                         !.state.currentReleaseState =
                            appReleaseReducer(acc.state.currentReleaseState, action),
                         !.releaseIsPrev = action.heldRelease]
                ELSE nextState

\* the callback of actions.reduce: acc.state is its prevState, the other
\* fields tell which objects of the result are those of the reducer's
\* prevState
reduceAction(acc, action) ==
    LET nextState == [acc EXCEPT !.isPrevState = FALSE]
    IN  CASE action.type \in {"INIT_DATA", "SET_DATA"} ->
                [nextState EXCEPT !.state.data = action.data,
                                  !.dataIsPrev = action.held]
          [] action.type = "SUBMIT_DATA" ->
                [nextState EXCEPT !.state.data = action.data,
                                  !.dataIsPrev = action.held,
                                  !.state.isDeploying = TRUE]
          [] action.type \in {"CANCEL", "DEPLOY_DISMISS"} ->
                [nextState EXCEPT !.state.isDeploying = FALSE]
          [] action.type = "CREATED" ->
                [nextState EXCEPT !.state.isDeploying = FALSE]
          [] OTHER ->
                IF isActionType(DataActionType, action)
                THEN [nextState EXCEPT
                         !.state.data = dataReducer(acc.state.data, action),
                         !.dataIsPrev = FALSE]
                ELSE IF isActionType(AppReleaseActionType, action)
                THEN [nextState EXCEPT
                         !.state.currentReleaseState =
                            appReleaseReducer(acc.state.currentReleaseState, action),
                         !.releaseIsPrev = action.heldRelease]
                ELSE acc

\* actions.reduce(..., prevState)
RECURSIVE reduceActions(_, _)
reduceActions(acc, actions) ==
    IF actions = <<>> THEN acc
    ELSE reduceActions(reduceAction(acc, Head(actions)), Tail(actions))

\* release === prevState.currentReleaseState.release
SameRelease(next, prevState) ==
    \/ next.releaseIsPrev
    \/ /\ next.state.currentReleaseState.release = NULL
       /\ prevState.currentReleaseState.release = NULL

\* a reducer that never defaults the release
handleNoRelease_Never(next, prevState) == next

\* "handle app not having a release"
handleNoRelease(next, prevState) ==
    LET current == next.state.currentReleaseState
        prev == prevState.currentReleaseState
    IN  IF /\ SameRelease(next, prevState)
           /\ current.loading = prev.loading
           /\ current.error = prev.error
        THEN next
        ELSE IF current.release = NULL /\ ~current.loading
        THEN [next EXCEPT !.state.currentReleaseState.release = NewRelease,
                          !.releaseIsPrev = FALSE]
        ELSE next

\* "newRelease is used to create a deployment"
buildNewRelease(next, prevState) ==
    LET release == next.state.currentReleaseState.release
        data == next.state.data
        diff == IF data # NULL
                THEN protoMapDiff(release.env, getEntries(data))
                ELSE EmptyDiff
    IN  IF release = NULL THEN next
        ELSE IF SameRelease(next, prevState) /\ next.dataIsPrev THEN next
        ELSE [next EXCEPT !.state.newRelease =
                 [artifacts |-> release.artifacts,
                  env |-> applyProtoMapDiff(release.env, diff)]]

\* "maintain any non-conflicting changes made when new release arrives"
rebase(next, prevState) ==
    LET release == next.state.currentReleaseState.release
    IN  IF release = NULL THEN next
        ELSE IF SameRelease(next, prevState) THEN next
        ELSE [next EXCEPT !.state.data = rebaseData(next.state.data, release.env),
                          !.dataIsPrev = FALSE]

\* reducer(prevState, actions): state is the state returned, isPrevState
\* tells that it is the object prevState; defaulted, rebuilt and rebased tell
\* which of the three steps after the reduce did not return early
reducer(prevState, actions) ==
    LET array == IF actions.isArray THEN actions.value ELSE <<actions.value>>
        nextState == reduceActions([state |-> prevState, isPrevState |-> TRUE,
                                    dataIsPrev |-> TRUE, releaseIsPrev |-> TRUE],
                                   array)
        released == handleNoRelease(nextState, prevState)
        built == buildNewRelease(released, prevState)
        rebased == rebase(built, prevState)
    IN  IF nextState.isPrevState
        THEN [state |-> prevState, isPrevState |-> TRUE,
              defaulted |-> FALSE, rebuilt |-> FALSE, rebased |-> FALSE]
        ELSE [state |-> rebased.state, isPrevState |-> FALSE,
              defaulted |-> released # nextState,
              rebuilt |-> ~(\/ released.state.currentReleaseState.release = NULL
                            \/ /\ SameRelease(released, prevState)
                               /\ released.dataIsPrev),
              rebased |-> rebased # built]

\* what EnvEditor renders of a state
EnvEditorRender(editorState) ==
    IF editorState.currentReleaseState.loading THEN "Loading"
    ELSE IF editorState.currentReleaseState.release = NULL THEN "throw"
    ELSE "KeyValueEditor"

\* no dispatch yet
NoDispatch ==
    [op |-> "none", n |-> 0, known |-> FALSE, deploy |-> "none", lastDeploy |-> "none",
     isPrevState |-> FALSE, defaulted |-> FALSE, rebuilt |-> FALSE, rebased |-> FALSE]

\* the controller as constructed by its first render, over a sequence whose
\* length is one of lengths and with a thresholdTop that is one of thresholds
InitWith(lengths, thresholds) ==
    /\ state = 1
    /\ \E n \in lengths : states = <<NewState(n)>>
    /\ thresholdTop \in thresholds
    /\ itemDimensions = <<>>
    /\ scrollParentRef = NULL
    /\ willUnmountFns = <<>>
    /\ listeners = {}
    /\ mounted = TRUE
    /\ tornDown = <<>>
    /\ call = NoCall
    /\ editor = initialState
    /\ dispatched = NoDispatch

Init == InitWith(0..MaxN, Thresholds)

(***************************************************************************)
(* onItemRender(index, node).  overflowY is what getComputedStyle reads    *)
(* for the elements while the scroll parent is looked up, parent is        *)
(* node.parentElement.                                                     *)
(***************************************************************************)
\* an onItemRender that looks the scroll parent up and attaches a listener
\* on every call with a node
OnItemRenderNode_AttachAlways(index, node, parent, overflowY) ==
    LET dimensions == calcItemDimensions(node)
        measured == dimensions # NULL
        scrollParentNode == findScrollParent(parent, overflowY)
        handleScroll == handleScrollOf(state, thresholdTop)
    IN  /\ itemDimensions' = MapSet(itemDimensions, index, dimensions)
        /\ states' = IF measured
                     THEN [states EXCEPT ![state] =
                              updateHeightAtIndex(@, index, dimensions.height)]
                     ELSE states
        /\ scrollParentRef' = scrollParentNode
        /\ listeners' = addEventListener(listeners, scrollParentNode, handleScroll)
        /\ willUnmountFns' = Append(willUnmountFns,
                                    willUnmountFn(scrollParentNode, handleScroll))
        /\ call' = [NoCall EXCEPT
                       !.op = "onItemRender", !.index = index, !.node = node,
                       !.parent = parent, !.overflowY = overflowY,
                       !.log = (IF measured
                                THEN << [op |-> "updateHeightAtIndex", state |-> state,
                                         index |-> index, height |-> dimensions.height] >>
                                ELSE <<>>)
                               \o << [op |-> "addEventListener",
                                      target |-> scrollParentNode,
                                      handler |-> handleScroll] >>]
        /\ UNCHANGED <<editor, dispatched, state, thresholdTop, mounted, tornDown>>

\* the body of onItemRender past the early return: node is not null.  The
\* branch on itemResizeObservers holds no statement and the map stays empty.
OnItemRenderNode(index, node, parent, overflowY) ==
    LET dimensions == calcItemDimensions(node)
        measured == dimensions # NULL
        first == scrollParentRef = NULL
        scrollParentNode == findScrollParent(parent, overflowY)
        handleScroll == handleScrollOf(state, thresholdTop)
    IN  /\ itemDimensions' = MapSet(itemDimensions, index, dimensions)
        /\ states' = IF measured
                     THEN [states EXCEPT ![state] =
                              updateHeightAtIndex(@, index, dimensions.height)]
                     ELSE states
        /\ scrollParentRef' = IF first THEN scrollParentNode ELSE scrollParentRef
        /\ listeners' = IF first
                        THEN addEventListener(listeners, scrollParentNode, handleScroll)
                        ELSE listeners
        /\ willUnmountFns' = IF first
                             THEN Append(willUnmountFns,
                                         willUnmountFn(scrollParentNode, handleScroll))
                             ELSE willUnmountFns
        /\ call' = [NoCall EXCEPT
                       !.op = "onItemRender", !.index = index, !.node = node,
                       !.parent = parent, !.overflowY = overflowY,
                       !.log = (IF measured
                                THEN << [op |-> "updateHeightAtIndex", state |-> state,
                                         index |-> index, height |-> dimensions.height] >>
                                ELSE <<>>)
                               \o (IF first
                                   THEN << [op |-> "addEventListener",
                                            target |-> scrollParentNode,
                                            handler |-> handleScroll] >>
                                   ELSE <<>>)]
        /\ UNCHANGED <<editor, dispatched, state, thresholdTop, mounted, tornDown>>

\* an onItemRender that reverts the index to unmeasured for a null node
OnItemRender_NullClears(index, node, parent, overflowY) ==
    IF node = NULL
    THEN /\ itemDimensions' = MapSet(itemDimensions, index, NULL)
         /\ call' = [NoCall EXCEPT !.op = "onItemRender", !.index = index]
         /\ UNCHANGED <<editor, dispatched, state, thresholdTop, states, scrollParentRef,
                        willUnmountFns, listeners, mounted, tornDown>>
    ELSE OnItemRenderNode(index, node, parent, overflowY)

OnItemRender(index, node, parent, overflowY) ==
    IF node = NULL
    THEN /\ call' = [NoCall EXCEPT !.op = "onItemRender", !.index = index]
         /\ UNCHANGED <<editor, dispatched, state, thresholdTop, states, itemDimensions, scrollParentRef,
                        willUnmountFns, listeners, mounted, tornDown>>
    ELSE OnItemRenderNode(index, node, parent, overflowY)

\* node.parentElement and the computed styles are read only by the lookup
\* of the scroll parent, the styles only on a chain that is not empty
ParentsRead(node) ==
    IF node # NULL /\ scrollParentRef = NULL THEN Elements \cup {NULL} ELSE {NULL}

StylesRead(parent) ==
    IF parent # NULL THEN [Elements -> Overflow] ELSE {NULL}

(***************************************************************************)
(* shouldItemRender(index) and getItemDimensions(index), called by an item *)
(***************************************************************************)
ShouldItemRender(index) ==
    /\ call' = [NoCall EXCEPT !.op = "shouldItemRender", !.index = index,
                              !.result = shouldItemRender(index)]
    /\ UNCHANGED <<editor, dispatched, state, thresholdTop, states, itemDimensions, scrollParentRef,
                   willUnmountFns, listeners, mounted, tornDown>>

GetItemDimensions(index) ==
    /\ call' = [NoCall EXCEPT !.op = "getItemDimensions", !.index = index,
                              !.result = getItemDimensions(index)]
    /\ UNCHANGED <<editor, dispatched, state, thresholdTop, states, itemDimensions, scrollParentRef,
                   willUnmountFns, listeners, mounted, tornDown>>

(***************************************************************************)
(* A scroll event of a DOM target: every listener attached to the target   *)
(* runs its handleScroll.  scrollY and scrollTop are the offsets the DOM   *)
(* holds when the event is handled.                                        *)
(***************************************************************************)
\* the offsets the elements hold when target scrolls: the target is at any
\* offset, an element that is not the target has not scrolled
ScrollTopsRead(target) ==
    {scrollTop \in [Elements -> Offsets] :
        \A el \in Elements : el # target => scrollTop[el] = 0}

RECURSIVE DispatchScroll(_, _, _, _)
DispatchScroll(ls, sts, scrollY, scrollTop) ==
    IF ls = {} THEN [states |-> sts, log |-> <<>>]
    ELSE LET l == CHOOSE x \in ls : TRUE
             offset == handleScrollOffset(l.handler, scrollY, scrollTop)
             rest == DispatchScroll(ls \ {l},
                                    [sts EXCEPT ![l.handler.state] =
                                        updateScrollPosition(@, offset)],
                                    scrollY, scrollTop)
         IN  [states |-> rest.states,
              log |-> << [op |-> "updateScrollPosition", state |-> l.handler.state,
                          offset |-> offset] >> \o rest.log]

Scroll(target, scrollY, scrollTop) ==
    LET done == DispatchScroll({l \in listeners : l.target = target},
                               states, scrollY, scrollTop)
    IN  /\ states' = done.states
        /\ call' = [NoCall EXCEPT !.op = "scroll", !.target = target,
                                  !.offset = IF target = WINDOW THEN scrollY
                                             ELSE scrollTop[target],
                                  !.log = done.log]
        /\ UNCHANGED <<editor, dispatched, state, thresholdTop, itemDimensions, scrollParentRef,
                       willUnmountFns, listeners, mounted, tornDown>>

(***************************************************************************)
(* The caller renders the controller again with other props.               *)
(***************************************************************************)
SetThresholdTop(t) ==
    /\ mounted
    /\ t # thresholdTop
    /\ thresholdTop' = t
    /\ call' = [NoCall EXCEPT !.op = "render"]
    /\ UNCHANGED <<editor, dispatched, state, states, itemDimensions, scrollParentRef,
                   willUnmountFns, listeners, mounted, tornDown>>

ReplaceState(n) ==
    /\ mounted
    /\ Len(states) < MaxStates
    /\ states' = Append(states, NewState(n))
    /\ state' = Len(states) + 1
    /\ call' = [NoCall EXCEPT !.op = "render"]
    /\ UNCHANGED <<editor, dispatched, thresholdTop, itemDimensions, scrollParentRef,
                   willUnmountFns, listeners, mounted, tornDown>>

(***************************************************************************)
(* The controller unmounts: the effect's cleanup runs the callbacks.       *)
(***************************************************************************)
Unmount ==
    /\ mounted
    /\ mounted' = FALSE
    /\ listeners' = runWillUnmountFns(willUnmountFns, listeners)
    /\ tornDown' = willUnmountFns
    /\ call' = [NoCall EXCEPT !.op = "unmount", !.log = willUnmountFns]
    /\ UNCHANGED <<editor, dispatched, state, thresholdTop, states, itemDimensions, scrollParentRef,
                   willUnmountFns>>

Next ==
    \/ \E index \in MountIndices, node \in Nodes \cup {NULL} :
          \E parent \in ParentsRead(node) :
             \E overflowY \in StylesRead(parent) :
                OnItemRender(index, node, parent, overflowY)
    \/ \E index \in Indices : ShouldItemRender(index)
    \/ \E index \in Indices : GetItemDimensions(index)
    \/ \E target \in Targets, scrollY \in Offsets :
          \E scrollTop \in ScrollTopsRead(target) :
             Scroll(target, scrollY, scrollTop)
    \/ \E t \in Thresholds : SetThresholdTop(t)
    \/ \E n \in 0..MaxN : ReplaceState(n)
    \/ Unmount

\* every operation with every input
Spec == Init /\ [][Next]_vars

(***************************************************************************)
(* Measurement: items mount at any index with any node and are asked for   *)
(* their dimensions, and the caller may supply another Position Index.     *)
(* The items are those of the current sequence.                            *)
(***************************************************************************)
NextMeasure ==
    \/ \E index \in 0..(states[state].length - 1), node \in Nodes \cup {NULL} :
          \E parent \in ParentsRead(node) :
             \E overflowY \in StylesRead(parent) :
                OnItemRender(index, node, parent, overflowY)
    \/ \E index \in Indices : GetItemDimensions(index)
    \/ \E n \in 0..MaxN : ReplaceState(n)

SpecMeasure == InitWith(0..MaxN, {0}) /\ [][NextMeasure]_vars

(***************************************************************************)
(* The window: items mount and are measured, the viewport scrolls, the     *)
(* caller may supply another Position Index, and items ask whether to      *)
(* render.                                                                 *)
(***************************************************************************)
NextWindow ==
    \/ \E index \in MountIndices, node \in Nodes :
          OnItemRender(index, node, NULL, NULL)
    \/ \E scrollY \in Offsets :
          \E scrollTop \in ScrollTopsRead(WINDOW) :
             Scroll(WINDOW, scrollY, scrollTop)
    \/ \E n \in 0..MaxN : ReplaceState(n)
    \/ \E index \in Indices : ShouldItemRender(index)

SpecWindow == InitWith(0..MaxN, {0}) /\ [][NextWindow]_vars

(***************************************************************************)
(* Scrolling: the first item mounts under any ancestor chain, any target   *)
(* scrolls, the caller renders again with other props, and the controller  *)
(* unmounts.  Items mount at index 0 only, with margins that parse.        *)
(***************************************************************************)
NextScroll ==
    \/ \E node \in PlainNodes \cup {NULL} :
          \E parent \in ParentsRead(node) :
             \E overflowY \in StylesRead(parent) :
                OnItemRender(0, node, parent, overflowY)
    \/ \E target \in Targets, scrollY \in Offsets :
          \E scrollTop \in ScrollTopsRead(target) :
             Scroll(target, scrollY, scrollTop)
    \/ \E t \in Thresholds : SetThresholdTop(t)
    \/ \E n \in {0, MaxN} : ReplaceState(n)
    \/ Unmount

SpecScroll == InitWith({MaxN}, Thresholds) /\ [][NextScroll]_vars

(***************************************************************************)
(* EnvEditor: dispatch(actions) runs the reducer on the state of the       *)
(* component.                                                              *)
(***************************************************************************)
\* the data an action can carry: the object the state holds, or another
DataActionsOf(prevState, type) ==
    {[BlankAction(type) EXCEPT !.data = data] : data \in Datas}
       \cup {[BlankAction(type) EXCEPT !.data = prevState.data, !.held = TRUE]}

\* what the app-release sub-reducer can return: any release state, with a
\* release that is the object the state holds, another or none
AppReleaseActionsOf(prevState) ==
    {[BlankAction("APP_RELEASE_ACTION") EXCEPT !.next = next] :
        next \in [release : AppReleases \cup {NULL}, loading : BOOLEAN, error : Errors]}
       \cup {[BlankAction("APP_RELEASE_ACTION") EXCEPT
                 !.next = [release |-> prevState.currentReleaseState.release,
                           loading |-> loading, error |-> error],
                 !.heldRelease = TRUE] : loading \in BOOLEAN, error \in Errors}

\* the actions that can be dispatched in a state; "UNKNOWN" is a type the
\* reducer does not know
ActionsOf(prevState) ==
    DataActionsOf(prevState, "INIT_DATA")
       \cup DataActionsOf(prevState, "SET_DATA")
       \cup DataActionsOf(prevState, "SUBMIT_DATA")
       \cup {BlankAction(type) : type \in {"CANCEL", "DEPLOY_DISMISS", "CREATED", "UNKNOWN"}}
       \cup {[BlankAction("DATA_ACTION") EXCEPT !.key = key, !.value = value] :
                key \in Keys, value \in Values}
       \cup {[BlankAction("DATA_ACTION") EXCEPT !.key = key, !.remove = TRUE] :
                key \in Keys}
       \cup AppReleaseActionsOf(prevState)

DeployActionType == {"SUBMIT_DATA", "CANCEL", "DEPLOY_DISMISS", "CREATED"}

KnownActionType ==
    {"INIT_DATA", "SET_DATA"} \cup DeployActionType \cup DataActionType
       \cup AppReleaseActionType

\* the type of the last action of the batch that is one of types, or before
RECURSIVE LastOfTypes(_, _, _)
LastOfTypes(array, types, before) ==
    IF array = <<>> THEN before
    ELSE LastOfTypes(Tail(array), types,
                     IF Head(array).type \in types THEN Head(array).type ELSE before)

Dispatch(actions) ==
    \E returned \in {reducer(editor, actions)} :
    LET array == IF actions.isArray THEN actions.value ELSE <<actions.value>>
    IN  /\ editor' = returned.state
        /\ dispatched' =
              [op |-> "reducer", n |-> Len(array),
               known |-> \E k \in DOMAIN array : array[k].type \in KnownActionType,
               deploy |-> LastOfTypes(array, DeployActionType, "none"),
               lastDeploy |-> LastOfTypes(array, DeployActionType, dispatched.lastDeploy),
               isPrevState |-> returned.isPrevState,
               defaulted |-> returned.defaulted,
               rebuilt |-> returned.rebuilt,
               rebased |-> returned.rebased]
        /\ UNCHANGED <<state, thresholdTop, states, itemDimensions, scrollParentRef,
                       willUnmountFns, listeners, mounted, tornDown, call>>

NextEnvEditor ==
    \/ \E action \in ActionsOf(editor) :
          Dispatch([isArray |-> FALSE, value |-> action])
    \/ \E n \in 0..MaxBatch :
          \E array \in [1..n -> ActionsOf(editor)] :
             Dispatch([isArray |-> TRUE, value |-> array])

SpecEnvEditor == InitWith({0}, {0}) /\ [][NextEnvEditor]_vars

(***************************************************************************)
(* The properties.                                                         *)
(***************************************************************************)
\* what the controller owns besides the record of the last operation
controller == <<state, thresholdTop, states, itemDimensions, scrollParentRef,
                willUnmountFns, listeners, mounted, tornDown>>

IsHeightCall(entry) == entry.op = "updateHeightAtIndex"
IsScrollCall(entry) == entry.op = "updateScrollPosition"
IsListenCall(entry) == entry.op = "addEventListener"
\* the calls of one kind an operation made
HeightCalls == SelectSeq(call.log, IsHeightCall)
ListenCalls == SelectSeq(call.log, IsListenCall)

\* C1: every shouldItemRender(i) call returns true exactly when
\* visibleIndexTop <= i < visibleIndexTop + visibleLength holds of the
\* window of the Position Index currently supplied, and changes no state.
C1_ShouldItemRenderIsWindowTest ==
    [][call'.op = "shouldItemRender" =>
          /\ call'.result =
                (/\ states'[state'].visibleIndexTop <= call'.index
                 /\ call'.index < states'[state'].visibleIndexTop
                                     + states'[state'].visibleLength)
          /\ UNCHANGED controller]_vars

\* an item in a window that starts past index 0 is told to render, while
\* the window belongs to a Position Index that replaced the first one
C1_Witness ==
    /\ call.op = "shouldItemRender"
    /\ call.result = TRUE
    /\ call.index = 1
    /\ states[state].visibleIndexTop = 1
    /\ state = 2

\* C2: every scroll event the controller handles calls updateScrollPosition
\* with max(0, S - T), S the offset of the anchor (window.scrollY or the
\* element's scrollTop) and T the thresholdTop the handler was configured
\* with; the value is never negative.
C2_ScrollForwardsClampedOffset ==
    call.op = "scroll" =>
        \A k \in DOMAIN call.log :
            /\ call.log[k].op = "updateScrollPosition"
            /\ call.target = scrollParentRef
            /\ \E l \in listeners :
                  /\ l.target = call.target
                  /\ l.handler.state = call.log[k].state
                  /\ call.log[k].offset =
                        (IF call.offset - l.handler.thresholdTop > 0
                         THEN call.offset - l.handler.thresholdTop ELSE 0)
            /\ call.log[k].offset >= 0

\* an element anchor scrolled to an offset below the threshold: 0 is forwarded
C2_Witness ==
    /\ call.op = "scroll"
    /\ call.target \in Elements
    /\ Len(call.log) = 1
    /\ call.offset = 0
    /\ call.log[1].offset = 0
    /\ \E l \in listeners : l.handler.thresholdTop = 1

\* C3: onItemRender(i, null) changes nothing: not the stored dimensions of
\* any index, not a Position Index (no call is made), not the cached anchor,
\* not the teardown callbacks, not the attached listeners.
C3_NullNodeIsNoOp ==
    [][(call'.op = "onItemRender" /\ call'.node = NULL) =>
          /\ UNCHANGED controller
          /\ call'.log = <<>>]_vars

\* a null node reported for an index whose dimensions are stored
C3_Witness ==
    /\ call.op = "onItemRender"
    /\ call.node = NULL
    /\ getItemDimensions(call.index) # NULL
    /\ scrollParentRef # NULL

\* C4: onItemRender(i, node) with a node calls updateHeightAtIndex(i, h)
\* exactly when the node has a client rectangle, once, with h the height
\* stored under i; without a rectangle null is stored and nothing is pushed.
C4_HeightPushedIffMeasured ==
    (call.op = "onItemRender" /\ call.node # NULL) =>
        IF call.node.rect # NULL
        THEN /\ Len(HeightCalls) = 1
             /\ HeightCalls[1].index = call.index
             /\ HeightCalls[1].state = state
             /\ itemDimensions[call.index] # NULL
             /\ HeightCalls[1].height = itemDimensions[call.index].height
        ELSE /\ HeightCalls = <<>>
             /\ itemDimensions[call.index] = NULL

\* a node without a client rectangle reported for an index whose earlier
\* height the Position Index holds
C4_Witness ==
    /\ call.op = "onItemRender"
    /\ call.node # NULL
    /\ call.node.rect = NULL
    /\ call.index \in DOMAIN states[state].heights
    /\ call.log = <<>>

\* C5: once the controller has unmounted with a scroll listener attached, the
\* listener is detached (the handler and anchor its teardown callback was
\* registered with), no listener of the controller is left, and no scroll
\* event calls updateScrollPosition.
C5_ListenerDetachedAfterUnmount ==
    (~mounted /\ tornDown # <<>>) =>
        /\ \A k \in DOMAIN tornDown :
              [target |-> tornDown[k].target, handler |-> tornDown[k].handler]
                 \notin listeners
        /\ listeners = {}
        /\ call.op = "scroll" => call.log = <<>>

\* the anchor scrolls after an unmount that followed a change of thresholdTop
\* made while the listener was attached
C5_Witness ==
    /\ ~mounted
    /\ tornDown # <<>>
    /\ call.op = "scroll"
    /\ call.target = scrollParentRef
    /\ tornDown[1].handler.thresholdTop # thresholdTop

\* the elements from parent up the ancestor chain (an element's ancestors
\* are the elements before it) whose overflow-y makes them scroll
ScrollableAncestors(parent, overflowY) ==
    IF parent = NULL THEN {}
    ELSE {el \in Elements : el.id <= parent.id /\ overflowY[el] \in {"auto", "scroll"}}

\* C6: the anchor found on the first mount is the nearest element of the
\* chain from the item's parent whose overflow-y is auto or scroll, and the
\* window when there is none; with the window as anchor a scroll event of
\* the window calls updateScrollPosition with an offset from window.scrollY.
C6_NearestScrollableOrWindow ==
    /\ (call.op = "onItemRender" /\ ListenCalls # <<>>) =>
          LET found == ListenCalls[1].target
              among == ScrollableAncestors(call.parent, call.overflowY)
          IN  /\ scrollParentRef = found
              /\ IF among = {} THEN found = WINDOW
                 ELSE found \in among /\ \A el \in among : el.id <= found.id
    /\ (call.op = "scroll" /\ call.target = WINDOW /\ scrollParentRef = WINDOW
           /\ listeners # {}) =>
          /\ Len(call.log) = 1
          /\ call.log[1].op = "updateScrollPosition"
          /\ \E l \in listeners :
                call.log[1].offset = Max(0, call.offset - l.handler.thresholdTop)

\* the item's parent scrolls and so does the parent's parent: the nearer one
\* becomes the anchor
C6_Witness ==
    /\ call.op = "onItemRender"
    /\ ListenCalls # <<>>
    /\ call.parent = Element(NumElements)
    /\ \A el \in Elements : call.overflowY[el] = "scroll"
    /\ scrollParentRef = Element(NumElements)

\* C7: no height stored for an index and no height passed to
\* updateHeightAtIndex is not-a-number, whatever the margins of the node.
C7_HeightNeverNaN ==
    /\ \A i \in DOMAIN itemDimensions :
          itemDimensions[i] # NULL => ~IsNaN(itemDimensions[i].height)
    /\ call.op = "onItemRender" =>
          \A k \in DOMAIN HeightCalls : ~IsNaN(HeightCalls[k].height)

\* C8: shouldItemRender(i) returns false for every i < 0 and every i >= N,
\* N the length of the sequence of the Position Index currently supplied.
C8_OutOfRangeNotRendered ==
    (call.op = "shouldItemRender"
        /\ (call.index < 0 \/ call.index >= states[state].length)) =>
        call.result = FALSE

\* the index N is asked about while the window reaches the end of the sequence
C8_Witness ==
    /\ call.op = "shouldItemRender"
    /\ states[state].length > 0
    /\ call.index = states[state].length
    /\ states[state].visibleIndexTop + states[state].visibleLength = states[state].length
    /\ call.result = FALSE

\* C9: getItemDimensions(i) returns null for every i outside [0, N) and for
\* every i never measured, N the length of the sequence of the Position Index
\* currently supplied.
C9_OutOfRangeDimensionsAbsent ==
    (call.op = "getItemDimensions"
        /\ (\/ call.index < 0
            \/ call.index >= states[state].length
            \/ call.index \notin DOMAIN itemDimensions)) =>
        call.result = NULL

\* an index holds dimensions
Measured(map, i) == i \in DOMAIN map /\ map[i] # NULL

\* C10 as stated: an index that holds dimensions holds dimensions after
\* every operation.
C10_EntryNeverRemoved ==
    [][\A i \in Indices : Measured(itemDimensions, i) => Measured(itemDimensions', i)]_vars

\* C10 as amended: an onItemRender(i, node) with a node leaves index i with
\* dimensions exactly when the node has a client rectangle; every other
\* operation, an onItemRender with a null node and an onItemRender for
\* another index leave index i as it was.
C10_EntryFollowsLastMeasurement ==
    [][\A i \in Indices :
          Measured(itemDimensions', i) =
             IF call'.op = "onItemRender" /\ call'.node # NULL /\ call'.index = i
             THEN call'.node.rect # NULL
             ELSE Measured(itemDimensions, i)]_vars

\* a node without a client rectangle reported for an index that was measured
\* before (the Position Index holds its height): the index holds null
C10_Witness ==
    /\ call.op = "onItemRender"
    /\ call.node # NULL
    /\ call.node.rect = NULL
    /\ call.index \in DOMAIN states[state].heights
    /\ getItemDimensions(call.index) = NULL
    /\ \E j \in Indices : j # call.index /\ Measured(itemDimensions, j)

\* C11: the scroll parent is looked up and the scroll listener attached once
\* in the controller's lifetime, by the first onItemRender with a node: the
\* cached anchor, once set, never changes, no operation attaches a second
\* listener, at most one listener of the controller is attached at any time,
\* and exactly one removal callback is registered from then on.
C11_AnchorAndListenerOnce ==
    [][/\ (call'.op = "onItemRender" /\ call'.node # NULL /\ scrollParentRef = NULL) =>
              /\ scrollParentRef' # NULL
              /\ Len(ListenCalls') = 1
              /\ ListenCalls'[1].target = scrollParentRef'
              /\ listeners' = listeners \cup
                                 {[target |-> scrollParentRef',
                                   handler |-> ListenCalls'[1].handler]}
       /\ ~(call'.op = "onItemRender" /\ call'.node # NULL /\ scrollParentRef = NULL) =>
              /\ scrollParentRef' = scrollParentRef
              /\ willUnmountFns' = willUnmountFns
              /\ call'.op # "unmount" => ListenCalls' = <<>>
              /\ listeners' \subseteq listeners
       /\ Cardinality(listeners') <= 1
       /\ Len(willUnmountFns') = (IF scrollParentRef' = NULL THEN 0 ELSE 1)]_vars

\* an item mounts with a node after the props changed (handleScroll is no
\* longer the handler that was attached): the one listener stays, on the
\* element found first, and one removal callback is registered
C11_Witness ==
    /\ call.op = "onItemRender"
    /\ call.node # NULL
    /\ call.log # <<>>
    /\ ListenCalls = <<>>
    /\ scrollParentRef \in Elements
    /\ Len(willUnmountFns) = 1
    /\ listeners = {[target |-> scrollParentRef, handler |-> willUnmountFns[1].handler]}
    /\ willUnmountFns[1].handler # handleScrollOf(state, thresholdTop)

\* C12: when the controller unmounts every registered teardown callback runs
\* once, in the order of registration (the callbacks that ran are the
\* registered ones, and none is left that did not run), and after the
\* unmount no operation, a scroll event or a late onItemRender with a node,
\* changes a Position Index.
C12_TeardownThenNoMutation ==
    [][/\ call'.op = "unmount" => call'.log = willUnmountFns
       /\ ~mounted' => tornDown' = willUnmountFns'
       /\ ~mounted => /\ states' = states
                      /\ tornDown' = tornDown]_vars

\* C13: every scroll event the controller handles calls updateScrollPosition
\* on the Position Index of the current render with max(0, S - T), T the
\* thresholdTop of the current render, also when the caller changed
\* thresholdTop or replaced the Position Index after the listener was
\* attached.
C13_ScrollUsesCurrentProps ==
    call.op = "scroll" =>
        \A k \in DOMAIN call.log :
            /\ call.log[k].op = "updateScrollPosition"
            /\ call.log[k].state = state
            /\ call.log[k].offset = Max(0, call.offset - thresholdTop)

\* C14: in every state of the EnvEditor a reducer call returns, for a single
\* action or a batch and whatever the app-release sub-reducer returned, a
\* currentReleaseState that is not loading holds a release, so that the
\* render never throws for a missing release.
C14_NotLoadingImpliesRelease ==
    /\ ~editor.currentReleaseState.loading =>
          editor.currentReleaseState.release # NULL
    /\ EnvEditorRender(editor) # "throw"

\* a batch whose app-release action ended loading with a not-found error and
\* no release: the reducer put an empty release in
C14_Witness ==
    /\ dispatched.op = "reducer"
    /\ dispatched.n = MaxBatch
    /\ dispatched.defaulted
    /\ ~editor.currentReleaseState.loading
    /\ editor.currentReleaseState.error = NotFound
    /\ editor.currentReleaseState.release = NewRelease
    /\ EnvEditorRender(editor) = "KeyValueEditor"

\* C15: after every reducer call that leaves a release present, the env map
\* of newRelease is the env of the current release with the entries of the
\* state's data applied (the step in which a new release arrives and the
\* data is rebased included, and a SUBMIT_DATA with the data the state
\* holds), so that a deployment in progress deploys the current data.
C15_NewReleaseReflectsData ==
    (dispatched.op = "reducer" /\ editor.currentReleaseState.release # NULL) =>
        LET env == editor.currentReleaseState.release.env
        IN  /\ editor.newRelease.env =
                  applyProtoMapDiff(env, protoMapDiff(env, getEntries(editor.data)))
            /\ editor.isDeploying => editor.newRelease.env = getEntries(editor.data)

\* C16: isDeploying is false in the initial state and, after any dispatches
\* of single actions and batches, true exactly when the most recent action
\* that is a SUBMIT_DATA, CANCEL, DEPLOY_DISMISS or CREATED was a SUBMIT_DATA;
\* an action of any other type leaves it as it was.
C16_DeployingIffLastWasSubmit ==
    editor.isDeploying = (dispatched.lastDeploy = "SUBMIT_DATA")

\* a batch without any of the four types, with an app-release action that
\* brought a release the data was rebased onto, while deploying
C16_Witness ==
    /\ dispatched.op = "reducer"
    /\ dispatched.n = MaxBatch
    /\ dispatched.known
    /\ dispatched.deploy = "none"
    /\ dispatched.rebased
    /\ editor.isDeploying

\* C17: a reducer call whose action, or every action of whose batch (the
\* empty batch too), is of no type the reducer knows returns the object
\* prevState, every field as it was, and runs none of the three steps
\* (release defaulting, building newRelease, rebasing the data).
C17_UnknownActionsReturnPrevState ==
    [][(dispatched'.op = "reducer" /\ ~dispatched'.known) =>
          /\ dispatched'.isPrevState
          /\ editor' = editor
          /\ ~dispatched'.defaulted
          /\ ~dispatched'.rebuilt
          /\ ~dispatched'.rebased]_vars

\* a batch of unknown actions dispatched while a deployment of an edited
\* entry is in progress
C17_Witness ==
    /\ dispatched.op = "reducer"
    /\ dispatched.n = MaxBatch
    /\ ~dispatched.known
    /\ dispatched.isPrevState
    /\ editor.isDeploying
    /\ editor.data.changed # {}
    /\ editor.currentReleaseState.release # NULL

====
